---- MODULE Spec2Model ----
(***************************************************************************)
(* Tide clock watch face of wasp-os (watch_faces/tide_clock.py):           *)
(* the harmonic tide model (class Tide), the daylight saving adjustment    *)
(* (_displayTime / _standardTime) and the watch face application           *)
(* (class TideClockApp) that loads sites from config.txt and caches the    *)
(* next tides; and the editor of wasp-os (apps/edit_exec.py, class         *)
(* EditExecApp) with its two-stage keyboard.                               *)
(*                                                                         *)
(* Times are integer seconds since 1 Jan 2000 00:00, the MicroPython       *)
(* epoch of the watch (tide_clock.py line 51).                             *)
(***************************************************************************)
EXTENDS Integers, Sequences, FiniteSets, TLC

VARIABLES
    \* ---- daylight saving adjustment, applied to drawn inputs ----
    dRegion,    \* region argument of _displayTime / _standardTime
    dYear,      \* calendar year of the input
    dT,         \* standard time handed to _displayTime, None if not drawn
    dSpring,    \* the date tuple computed for springFwd
    dFall,      \* the date tuple computed for fallBack
    dOut,       \* result of _displayTime(dT, dRegion)
    dBack,      \* result of _standardTime(dOut, dRegion), of
                \* _standardTime(dT, dRegion) when _displayTime raised
    dPc,        \* "idle", "init", "dates", "displayed", "restored"
    \* ---- tide model, applied to drawn inputs ----
    tModel,     \* the Tide object: constants of one site
    tT,         \* reference time
    tN,         \* number of events asked of the chain
    tHigh,      \* high(tT)
    tHighNext,  \* high(tT + basePeriod)
    tEvent,     \* event(tT)
    tCand,      \* the candidates inside event(tT): lastHigh, low, nextHigh
    tCandNext,  \* the candidates inside event(tT, next=True)
    tChain,     \* the chain of tN events from tT
    tPc,        \* "idle", "init", "high", "event", "chain"
    \* ---- TideClockApp ----
    config,     \* lines of config.txt
    _nsite,     \* self._nsite
    site,       \* self.site
    _model,     \* self._model
    timestamp,  \* self.timestamp: None or the cached events
    _min,       \* self._min, the minute on display
    rtc,        \* wasp.watch.rtc.time()
    started,    \* foreground() has run, events are delivered
    raised,     \* exception the last handler ended with, "" if none
    cacheSite,  \* history: self.site when self.timestamp was computed
    trail,      \* history: the sites selected by _load_nsite, in order
    advances,   \* history: number of clock advances
    observed,   \* history: utcTime of the draw the last handler ran, if any
    prior,      \* history: self.timestamp as that draw found it
    \* ---- EditExecApp ----
    text,       \* self.text: the lines, each a sequence of characters
    xchar,      \* self.xchar
    ychar,      \* self.ychar
    output,     \* self.output
    mode,       \* self.mode: None or the rows of the enlarged keyboard
    page,       \* self.page
    key,        \* history: label of the command key the last touch hit, or ""
    ran,        \* history: the last handler called exec on the text
    edits       \* history: number of handlers that changed the text

dstVars == <<dRegion, dYear, dT, dSpring, dFall, dOut, dBack, dPc>>
tideVars == <<tModel, tT, tN, tHigh, tHighNext, tEvent, tCand, tCandNext,
              tChain, tPc>>
appVars == <<config, _nsite, site, _model, timestamp, _min, rtc, started,
             raised, cacheSite, trail, advances, observed, prior>>

editVars == <<text, xchar, ychar, output, mode, page, key, ran, edits>>

vars == <<dstVars, tideVars, appVars, editVars>>

\* None as a region, and None where a time or a list of events is expected
None == "None"
NoTime == -1
NoEvents == <<>>

Abs(x) == IF x < 0 THEN -x ELSE x

\* F applied to the value of v, with v evaluated once (a local variable)
Bind(v, F(_)) == CHOOSE r \in {F(x) : x \in {v}} : TRUE

(***************************************************************************)
(* Calendar: time.mktime and time.localtime of MicroPython, which count    *)
(* seconds from 1 Jan 2000 and know no time zone.                          *)
(***************************************************************************)
EpochYear == 2000

IsLeap(y) == (y % 4 = 0 /\ y % 100 # 0) \/ y % 400 = 0

\* number of leap years in 1..y
LeapsThrough(y) == (y \div 4) - (y \div 100) + (y \div 400)

\* days from 1 Jan EpochYear to 1 Jan y
DaysBeforeYear(y) ==
    365 * (y - EpochYear) + LeapsThrough(y - 1) - LeapsThrough(EpochYear - 1)

MonthLen(y, m) ==
    IF m = 2 THEN (IF IsLeap(y) THEN 29 ELSE 28)
    ELSE IF m \in {4, 6, 9, 11} THEN 30 ELSE 31

RECURSIVE DaysBeforeMonth(_, _)
DaysBeforeMonth(y, m) ==
    IF m = 1 THEN 0 ELSE DaysBeforeMonth(y, m - 1) + MonthLen(y, m - 1)

\* days from 1 Jan EpochYear to the given date
DayNumber(y, m, d) == DaysBeforeYear(y) + DaysBeforeMonth(y, m) + (d - 1)

\* 1 Jan 2000 was a Saturday
IsSunday(y, m, d) == (DayNumber(y, m, d) + 6) % 7 = 0

\* _mktime(base): base is (year, month, day, hour), the rest padded with 0
_mktime(base) ==
    DayNumber(base[1], base[2], base[3]) * 86400 + base[4] * 3600

\* the largest year whose seconds fit the model's integers
LastClockYear == 2066

\* time.localtime(t)[0]
YearOf(t) ==
    CHOOSE y \in EpochYear..LastClockYear :
        /\ _mktime(<<y, 1, 1, 0>>) <= t
        /\ t < _mktime(<<y + 1, 1, 1, 0>>)

(***************************************************************************)
(* _displayTime and _standardTime                                          *)
(***************************************************************************)
yoffOf_quarter(year) == year \div 4

yoffOf(year) == (5 * year) \div 4

\* the tuple handed to _mktime for springFwd; <<>> for an unknown region
SpringFwdDate(year, region) ==
    IF region = "Europe" THEN <<year, 3, 31 - ((yoffOf(year) + 4) % 7), 1>>
    ELSE IF region = "US-Canada" THEN <<year, 3, 7 - ((yoffOf(year) + 1) % 7), 2>>
    ELSE <<>>

\* the tuple handed to _mktime for fallBack
FallBackDate(year, region) ==
    IF region = "Europe" THEN <<year, 10, 31 - ((yoffOf(year) + 1) % 7), 1>>
    ELSE IF region = "US-Canada" THEN <<year, 11, 7 - ((yoffOf(year) + 1) % 7), 2>>
    ELSE <<>>

springFwd(year, region) == _mktime(SpringFwdDate(year, region))
fallBack(year, region) == _mktime(FallBackDate(year, region))

KnownRegions == {"Europe", "US-Canada"}

\* the result of _displayTime; [raised |-> "ValueError"] for the else branch
_displayTime_defaultEurope(t, region, offset) ==
    Bind(YearOf(t), LAMBDA year :
        LET r == IF region \in KnownRegions THEN region ELSE "Europe"
        IN  IF region = None THEN [raised |-> "", value |-> t]
            ELSE IF t < springFwd(year, r) \/ t > fallBack(year, r)
                 THEN [raised |-> "", value |-> t]
                 ELSE [raised |-> "", value |-> t + offset])

_displayTime(t, region, offset) ==
    Bind(YearOf(t), LAMBDA year :
        IF region = None THEN [raised |-> "", value |-> t]
        ELSE IF region \notin KnownRegions THEN [raised |-> "ValueError", value |-> 0]
        ELSE IF t < springFwd(year, region) \/ t > fallBack(year, region)
             THEN [raised |-> "", value |-> t]
             ELSE [raised |-> "", value |-> t + offset])

_standardTime_adds(t, region) == _displayTime(t, region, 3600)

_standardTime(t, region) == _displayTime(t, region, -3600)

(***************************************************************************)
(* class Tide: the harmonic tide model                                     *)
(***************************************************************************)
\* Tide.__init__: init = (2025, 1, 1, 0, ...), self.t0 = time.mktime(init)
t0 == _mktime(<<2025, 1, 1, 0>>)

basePeriod100 == 4471416

\* int(round(x / d)) for positive x
RoundDiv(x, d) == (2 * x + d) \div (2 * d)

basePeriod == RoundDiv(basePeriod100, 100)
halfPeriod == RoundDiv(basePeriod100, 200)

\* self.period
period == <<1275721, 2380713, 2748551, 1180292, 637861, 613005, 871276>>

\* int(x) of Python for the quotient n / d, d > 0: truncation towards zero
Trunc(n, d) == Bind(n, LAMBDA x : IF x >= 0 THEN x \div d ELSE -((-x) \div d))

(***************************************************************************)
(* math.sin and math.cos in fixed point.  A phase is a fraction of a turn  *)
(* in units of 1/65536; a sine is an integer in units of 1/32768, taken    *)
(* from a table of 256 steps per turn with linear interpolation.  The      *)
(* value differs from the floating point one by less than 2/10000, which   *)
(* leaves Tide.high within one second of the floating point result for     *)
(* the amplitudes used here, and equal to it when all amplitudes are zero. *)
(***************************************************************************)
SinScale == 128 * 256
TurnSteps == 256 * 256

QuarterSine == <<
        0, 804, 1608, 2411, 3212, 4011, 4808, 5602,
        6393, 7180, 7962, 8740, 9512, 10279, 11039, 11793,
        12540, 13279, 14010, 14733, 15447, 16151, 16846, 17531,
        18205, 18868, 19520, 20160, 20788, 21403, 22006, 22595,
        23170, 23732, 24279, 24812, 25330, 25833, 26320, 26791,
        27246, 27684, 28106, 28511, 28899, 29269, 29622, 29957,
        30274, 30572, 30853, 31114, 31357, 31581, 31786, 31972,
        32138, 32286, 32413, 32522, 32610, 32679, 32729, 32758,
        32768 >>

\* sine at step i of 256 per turn, 0 <= i <= 256
SineStep(i) ==
    IF i <= 64 THEN QuarterSine[i + 1]
    ELSE IF i <= 128 THEN QuarterSine[128 - i + 1]
    ELSE IF i <= 192 THEN -QuarterSine[i - 128 + 1]
    ELSE -QuarterSine[256 - i + 1]

\* math.sin(2 * pi * ph / 65536) * 32768, 0 <= ph < 65536
SinFix(ph) ==
    Bind(ph, LAMBDA x :
        SineStep(x \div 256)
        + ((SineStep(x \div 256 + 1) - SineStep(x \div 256)) * (x % 256)) \div 256)

CosFix(ph) == SinFix((ph + TurnSteps \div 4) % TurnSteps)

\* omega = (base % period[i]) * (2.0 * math.pi / period[i]), as a phase:
\* floor(r * 65536 / p), computed in two steps of 8 bits
PhaseOf(base, p) ==
    LET r == base % p
        a == (r * 256) \div p
        b == (((r * 256) % p) * 256) \div p
    IN  a * 256 + b

\* the loop of Tide.high: offset += s[i] * sin(omega) + c[i] * cos(omega),
\* in units of 1/32768 second
RECURSIVE HarmonicSum(_, _, _)
HarmonicSum(m, base, i) ==
    IF i = 0 THEN 0
    ELSE HarmonicSum(m, base, i - 1)
         + m.s[i] * SinFix(PhaseOf(base, period[i]))
         + m.c[i] * CosFix(PhaseOf(base, period[i]))

\* the base of Tide.high: a whole number of base periods from the offset
highBase_oneStage(m, t) ==
    Bind(t - t0 - m.offset + halfPeriod, LAMBDA time0 :
        time0 - (time0 % basePeriod100) + m.offset)

highBase(m, t) ==
    Bind(t - t0 - m.offset + halfPeriod, LAMBDA time0 :
        time0 - ((time0 % basePeriod100) % basePeriod) + m.offset)

\* Tide.high(t)
high(m, t) ==
    Bind(highBase(m, t), LAMBDA base :
        t0 + base + Trunc(HarmonicSum(m, base, Len(period)), SinScale))

\* Tide.low(t, lastHigh, nextHigh); lowf holds the percentage word[2].
\* For the percentages of the sites below (45, 50, 55) the floating point
\* int(lowf * d) equals the integer quotient for every d of 30000..60000.
low_intFirst(m, t, lastHigh, nextHigh) ==
    LET lh == IF lastHigh = NoTime THEN high(m, t - halfPeriod) ELSE lastHigh
        nh == IF nextHigh = NoTime THEN high(m, t + halfPeriod) ELSE nextHigh
    IN  lh + (m.lowf \div 100) * (nh - lh)

low(m, t, lastHigh, nextHigh) ==
    LET lh == IF lastHigh = NoTime THEN high(m, t - halfPeriod) ELSE lastHigh
        nh == IF nextHigh = NoTime THEN high(m, t + halfPeriod) ELSE nextHigh
    IN  lh + Trunc(m.lowf * (nh - lh), 100)

\* min(list, key=lambda x: abs(x[0] - t)): the first element of least key
MinByDistance(list, t) ==
    Bind(list, LAMBDA l :
        l[CHOOSE i \in 1..Len(l) :
            /\ \A j \in 1..Len(l) : Abs(l[i][1] - t) <= Abs(l[j][1] - t)
            /\ \A j \in 1..(i - 1) : Abs(l[j][1] - t) > Abs(l[i][1] - t)])

\* the three candidates of Tide.event for the search point tt
eventCandidates_noSwap(m, tt) ==
    Bind(high(m, tt), LAMBDA h :
    Bind(high(m, h + basePeriod), LAMBDA nextHigh :
        << <<h, TRUE>>,
           <<low(m, NoTime, h, nextHigh), FALSE>>,
           <<nextHigh, TRUE>> >>))

eventCandidates(m, tt) ==
    Bind(high(m, tt), LAMBDA h :
    Bind(IF h > tt THEN high(m, h - basePeriod) ELSE h, LAMBDA lastHigh :
    Bind(IF h > tt THEN h ELSE high(m, h + basePeriod), LAMBDA nextHigh :
        << <<lastHigh, TRUE>>,
           <<low(m, NoTime, lastHigh, nextHigh), FALSE>>,
           <<nextHigh, TRUE>> >>)))

\* the search point of Tide.event
eventPoint_ignoreNext(t, next) == t

eventPoint(t, next) == IF next THEN t + halfPeriod ELSE t

\* Tide.event(t, next): <<timestamp, isHigh>>
event(m, t, next) ==
    Bind(eventPoint(t, next), LAMBDA tt :
        MinByDistance(eventCandidates(m, tt), tt))

_NTIDE == 4

\* TideClockApp._draw, the refresh of self.timestamp from utcTime
RECURSIVE chainAppend(_, _, _)
chainAppend(m, chain, n) ==
    Bind(chain, LAMBDA ts :
        IF Len(ts) >= n THEN ts
        ELSE chainAppend(m, Append(ts, event(m, ts[Len(ts)][1], TRUE)), n))

advanceChain_keepFirst(m, utcTime, n) ==
    Bind(event(m, utcTime, FALSE), LAMBDA first : chainAppend(m, <<first>>, n))

advanceChain(m, utcTime, n) ==
    Bind(event(m, utcTime, FALSE), LAMBDA first :
        chainAppend(m, <<IF first[1] < utcTime THEN event(m, first[1], TRUE)
                                              ELSE first>>, n))

(***************************************************************************)
(* config.txt: one line per site,                                          *)
(*   name,offset,lowf,s1,c1,...,s7,c7,error                               *)
(* A line is modelled by its first field and what the fields after it      *)
(* parse to.  comment: the first field begins with '#'.  parses: the       *)
(* fields after the name are numbers (FALSE for a line of free text,       *)
(* which has no second field).                                             *)
(***************************************************************************)
Zeros == <<0, 0, 0, 0, 0, 0, 0>>

Line(name, comment, parses, offset, lowf, s, c, error) ==
    [name |-> name, comment |-> comment, parses |-> parses, offset |-> offset,
     lowf |-> lowf, s |-> s, c |-> c, error |-> error]

Aberdeen == Line("Aberdeen", FALSE, TRUE, 0, 50, Zeros, Zeros, 900)
Brighton == Line("Brighton", FALSE, TRUE, 12345, 45,
                 <<1800, 300, 0, 0, 120, 0, 0>>, <<-600, 0, 200, 0, 0, 0, 0>>, 900)
Cardiff == Line("Cardiff", FALSE, TRUE, 30011, 55,
                <<0, -250, 0, 900, 0, 60, 0>>, <<1200, 0, 0, 0, -80, 0, 40>>, 900)
\* a record commented out, and a line of free text
HashBrighton == Line("#Brighton", TRUE, TRUE, 12345, 45,
                     <<1800, 300, 0, 0, 120, 0, 0>>, <<-600, 0, 200, 0, 0, 0, 0>>, 900)
HashText == Line("# tide sites", TRUE, FALSE, 0, 0, Zeros, Zeros, 0)

\* the resources on the watch; the last one is the empty file
ConfigFiles ==
    { <<Aberdeen, Brighton, Cardiff>>,
      <<Aberdeen, Brighton>>,
      <<Aberdeen, HashBrighton, Cardiff>>,
      <<Aberdeen, HashText, Brighton>>,
      <<>> }

\* the attributes Tide.__init__ sets from the line's words
ModelOf(line) ==
    [offset |-> line.offset, lowf |-> line.lowf, s |-> line.s, c |-> line.c,
     error |-> line.error]

Sites == {ModelOf(Aberdeen), ModelOf(Brighton), ModelOf(Cardiff)}

\* Tide.__init__(config, site): the first line whose first field is site
Tide(cfg, name) ==
    IF \A i \in 1..Len(cfg) : cfg[i].name # name
    THEN [raised |-> "Exception", model |-> None]
    ELSE LET i == CHOOSE k \in 1..Len(cfg) :
                     /\ cfg[k].name = name
                     /\ \A j \in 1..(k - 1) : cfg[j].name # name
         IN  IF cfg[i].parses
             THEN [raised |-> "", model |-> ModelOf(cfg[i])]
             ELSE [raised |-> "IndexError", model |-> None]

\* TideClockApp._load_nsite, the line selected for index n:
\* <<self._nsite afterwards, first field of the line>>
selectLine(cfg, n) ==
    IF n < Len(cfg) THEN <<n, cfg[n + 1].name>>
    ELSE IF Len(cfg) > 0 THEN <<0, cfg[1].name>>
    ELSE <<0, "">>

(***************************************************************************)
(* Bounds of the inputs                                                    *)
(***************************************************************************)
FirstYear == EpochYear
LastYear == 2099
MaxClockYear == 2027    \* input times are drawn from FirstYear..MaxClockYear
MaxChain == 5           \* longest chain asked of advanceChain
MaxSample == 24         \* reference times spread over the base periods
SampleStride == 9973
WrapSpan == 20          \* seconds drawn either side of the scaled period's wrap
MaxAdvance == 3         \* clock advances of the watch
MaxSwipe == 3           \* site-advance requests

DstRegions == {"Europe", "US-Canada", None, "Australia"}

BoundaryOffsets == {-3601, -3600, -3599, -1, 0, 1, 3599, 3600, 3601}

\* standard times of a year around the boundaries of a region
DstTimes(year, region) ==
    LET r == IF region \in KnownRegions THEN region ELSE "Europe"
    IN  {springFwd(year, r) + d : d \in BoundaryOffsets}
        \cup {fallBack(year, r) + d : d \in BoundaryOffsets}
        \cup {_mktime(<<year, 1, 1, 0>>), _mktime(<<year, 7, 1, 12>>),
              _mktime(<<year, 12, 31, 23>>)}

\* the first reference time whose time0 is the wrap of basePeriod100
WrapTime(m) == t0 + m.offset - halfPeriod + basePeriod100

\* reference times for a site: spread over the periods, and around the
\* last 16 seconds of the scaled period, one base period before and after
TideTimes(m) ==
    {t0 + m.offset + k * SampleStride : k \in 0..MaxSample}
    \cup {WrapTime(m) + j * basePeriod + d : j \in {-1, 0, 1}, d \in (-WrapSpan)..4}

DstIdle ==
    /\ dRegion = None /\ dYear = FirstYear /\ dT = NoTime
    /\ dSpring = <<>> /\ dFall = <<>>
    /\ dOut = [raised |-> "", value |-> 0] /\ dBack = [raised |-> "", value |-> 0]
    /\ dPc = "idle"

TideIdle ==
    /\ tModel = ModelOf(Aberdeen) /\ tT = NoTime /\ tN = 0
    /\ tHigh = NoTime /\ tHighNext = NoTime
    /\ tEvent = <<NoTime, FALSE>> /\ tCand = NoEvents /\ tCandNext = NoEvents
    /\ tChain = NoEvents /\ tPc = "idle"

AppIdle ==
    /\ config = <<>> /\ _nsite = 0 /\ site = "" /\ _model = ModelOf(Aberdeen)
    /\ timestamp = NoEvents /\ _min = 0 /\ rtc = 0 /\ started = FALSE
    /\ raised = "" /\ cacheSite = "" /\ trail = <<>> /\ advances = 0
    /\ observed = NoTime /\ prior = NoEvents

EditIdle ==
    /\ text = <<>> /\ xchar = 0 /\ ychar = 0 /\ output = <<>> /\ mode = <<>>
    /\ page = 0 /\ key = "" /\ ran = FALSE /\ edits = 0

(***************************************************************************)
(* _displayTime and _standardTime applied to drawn inputs                  *)
(***************************************************************************)
DstInit ==
    /\ dRegion \in DstRegions
    /\ dYear \in FirstYear..LastYear
    /\ dT \in (IF dYear <= MaxClockYear THEN DstTimes(dYear, dRegion) ELSE {NoTime})
    /\ dSpring = <<>> /\ dFall = <<>>
    /\ dOut = [raised |-> "", value |-> 0] /\ dBack = [raised |-> "", value |-> 0]
    /\ dPc = "init"
    /\ TideIdle /\ AppIdle /\ EditIdle

\* lines 123-130: the boundary dates of the year
DstDates ==
    /\ dPc = "init"
    /\ dSpring' = SpringFwdDate(dYear, dRegion)
    /\ dFall' = FallBackDate(dYear, dRegion)
    /\ dPc' = "dates"
    /\ UNCHANGED <<dRegion, dYear, dT, dOut, dBack, tideVars, appVars, editVars>>

DstDisplay ==
    /\ dPc = "dates" /\ dT # NoTime
    /\ dOut' = _displayTime(dT, dRegion, 3600)
    /\ dPc' = "displayed"
    /\ UNCHANGED <<dRegion, dYear, dT, dSpring, dFall, dBack, tideVars, appVars, editVars>>

DstStandard ==
    /\ dPc = "displayed"
    /\ dBack' = _standardTime(IF dOut.raised = "" THEN dOut.value ELSE dT, dRegion)
    /\ dPc' = "restored"
    /\ UNCHANGED <<dRegion, dYear, dT, dSpring, dFall, dOut, tideVars, appVars, editVars>>

DstNext == DstDates \/ DstDisplay \/ DstStandard

SpecDst == DstInit /\ [][DstNext]_vars

(***************************************************************************)
(* Tide.high, Tide.event and the chain of _draw applied to drawn inputs    *)
(***************************************************************************)
TideInit ==
    /\ tModel \in Sites
    /\ tT \in TideTimes(tModel)
    /\ tN \in 1..MaxChain
    /\ tHigh = NoTime /\ tHighNext = NoTime
    /\ tEvent = <<NoTime, FALSE>> /\ tCand = NoEvents /\ tCandNext = NoEvents
    /\ tChain = NoEvents /\ tPc = "init"
    /\ DstIdle /\ AppIdle /\ EditIdle

TideHigh ==
    /\ tPc = "init"
    /\ tHigh' = high(tModel, tT)
    /\ tHighNext' = high(tModel, tT + basePeriod)
    /\ tPc' = "high"
    /\ UNCHANGED <<tModel, tT, tN, tEvent, tCand, tCandNext, tChain,
                   dstVars, appVars, editVars>>

TideEvent ==
    /\ tPc = "high"
    /\ tEvent' = event(tModel, tT, FALSE)
    /\ tCand' = eventCandidates(tModel, eventPoint(tT, FALSE))
    /\ tCandNext' = eventCandidates(tModel, eventPoint(tT, TRUE))
    /\ tPc' = "event"
    /\ UNCHANGED <<tModel, tT, tN, tHigh, tHighNext, tChain, dstVars, appVars, editVars>>

TideChain ==
    /\ tPc = "event"
    /\ tChain' = advanceChain(tModel, tT, tN)
    /\ tPc' = "chain"
    /\ UNCHANGED <<tModel, tT, tN, tHigh, tHighNext, tEvent, tCand, tCandNext,
                   dstVars, appVars, editVars>>

TideNext == TideHigh \/ TideEvent \/ TideChain

SpecTide == TideInit /\ [][TideNext]_vars

(***************************************************************************)
(* class TideClockApp                                                      *)
(***************************************************************************)
\* TideClockApp._load_nsite for self._nsite = n: the attributes afterwards.
\* self.site is assigned before Tide(...) is built; when Tide raises,
\* self._model and self.timestamp keep their values.
_load_nsite(cfg, n, curModel, curTimestamp) ==
    LET sel == selectLine(cfg, n)
        built == Tide(cfg, sel[2])
    IN  [nsite |-> sel[1],
         site |-> sel[2],
         raised |-> built.raised,
         model |-> IF built.raised = "" THEN built.model ELSE curModel,
         timestamp |-> IF built.raised = "" THEN NoEvents ELSE curTimestamp]

\* now[4] of the local time tuple
MinuteOf(clock) == (clock \div 60) % 60

\* utcTime = _standardTime(int(wasp.watch.rtc.time()))
utcTimeOf(clock) == _standardTime(clock, "Europe").value

\* lines 258-265 of _draw: self.timestamp is stale
needsRefresh_onlyEmpty(ts, utcTime) == ts = NoEvents

needsRefresh(ts, utcTime) == ts = NoEvents \/ utcTime > ts[1][1]

\* lines 246-286 of _draw for the given model and cache:
\* the cache afterwards, and the exception of line 268 if any
drawBody(m, ts, clock) ==
    Bind(utcTimeOf(clock), LAMBDA utcTime :
    Bind(IF needsRefresh(ts, utcTime) THEN advanceChain(m, utcTime, _NTIDE) ELSE ts,
         LAMBDA cache :
        [timestamp |-> cache,
         utcTime |-> utcTime,
         refreshed |-> needsRefresh(ts, utcTime),
         raised |-> IF cache[2][1] = cache[1][1] THEN "ZeroDivisionError" ELSE ""]))

ClockStarts == {_mktime(<<2025, 1, 1, 0>>) + 7 * 3600 + 15 * 60,
                _mktime(<<2025, 7, 1, 12>>) + 59 * 60 + 30}

ClockSteps == {45, 16000}

\* the apps the system manager constructs: TideClockApp() returned.
\* On the empty file Tide raises "site not found" inside __init__ and
\* there is no application object to deliver events to.
Constructed(cfg) == _load_nsite(cfg, 0, None, NoEvents).raised = ""

Init ==
    /\ config \in {cfg \in ConfigFiles : Constructed(cfg)}
    /\ LET loaded == _load_nsite(config, 0, ModelOf(config[1]), NoEvents)
       IN  /\ _nsite = loaded.nsite
           /\ site = loaded.site
           /\ _model = loaded.model
           /\ timestamp = loaded.timestamp
           /\ trail = <<loaded.site>>
    /\ _min = 0
    /\ rtc \in ClockStarts
    /\ started = FALSE
    /\ raised = ""
    /\ cacheSite = ""
    /\ advances = 0
    /\ observed = NoTime /\ prior = NoEvents
    /\ DstIdle /\ TideIdle /\ EditIdle

\* the real time clock of the watch runs on
ClockAdvance ==
    /\ advances < MaxAdvance
    /\ \E d \in ClockSteps : rtc' = rtc + d
    /\ advances' = advances + 1
    /\ UNCHANGED <<config, _nsite, site, _model, timestamp, _min, started,
                   raised, cacheSite, trail, observed, prior, dstVars, tideVars, editVars>>

\* the part of _draw after the early return, on the current attributes
DrawNow(m, ts, siteName, curMin) ==
    \E d \in {drawBody(m, ts, rtc)} :
        /\ timestamp' = d.timestamp
        /\ cacheSite' = IF d.refreshed THEN siteName ELSE cacheSite
        /\ raised' = d.raised
        /\ _min' = IF d.raised = "" THEN MinuteOf(rtc) ELSE curMin
        /\ observed' = d.utcTime
        /\ prior' = ts

\* a handler that returns without reaching the body of _draw
NoDraw == observed' = NoTime /\ prior' = NoEvents

\* foreground() and preview(): self._draw(True)
Foreground ==
    /\ DrawNow(_model, timestamp, site, _min)
    /\ started' = TRUE
    /\ UNCHANGED <<config, _nsite, site, _model, rtc, trail, advances,
                   dstVars, tideVars, editVars>>

\* tick() and wake(): self._draw().  updated: wasp.system.bar.update()
\* returned the time (it returns None when the bar has nothing new)
Tick(updated) ==
    /\ started
    /\ IF updated /\ _min # MinuteOf(rtc)
       THEN DrawNow(_model, timestamp, site, _min)
       ELSE /\ raised' = ""
            /\ NoDraw
            /\ UNCHANGED <<timestamp, cacheSite, _min>>
    /\ UNCHANGED <<config, _nsite, site, _model, rtc, started, trail, advances,
                   dstVars, tideVars, editVars>>

\* swipe(event) with event[0] == DOWN
SwipeDown(updated) ==
    /\ started
    /\ Len(trail) <= MaxSwipe
    /\ \E loaded \in {_load_nsite(config, _nsite + 1, _model, timestamp)} :
           /\ _nsite' = loaded.nsite
           /\ site' = loaded.site
           /\ _model' = loaded.model
           /\ trail' = Append(trail, loaded.site)
           /\ IF loaded.raised # ""
              THEN /\ raised' = loaded.raised
                   /\ NoDraw
                   /\ UNCHANGED <<timestamp, cacheSite, _min>>
              ELSE IF updated /\ _min - 1 # MinuteOf(rtc)
              THEN DrawNow(loaded.model, loaded.timestamp, loaded.site, _min - 1)
              ELSE /\ timestamp' = loaded.timestamp
                   /\ _min' = _min - 1
                   /\ raised' = ""
                   /\ NoDraw
                   /\ UNCHANGED cacheSite
    /\ UNCHANGED <<config, rtc, started, advances, dstVars, tideVars, editVars>>

\* swipe(event) with any other direction: return True
SwipeOther ==
    /\ started
    /\ raised' = ""
    /\ NoDraw
    /\ UNCHANGED <<config, _nsite, site, _model, timestamp, _min, rtc, started,
                   cacheSite, trail, advances, dstVars, tideVars, editVars>>

Next ==
    \/ ClockAdvance
    \/ Foreground
    \/ \E updated \in BOOLEAN : Tick(updated)
    \/ \E updated \in BOOLEAN : SwipeDown(updated)
    \/ SwipeOther

Spec == Init /\ [][Next]_vars

(***************************************************************************)
(* class EditExecApp (apps/edit_exec.py): the editor with its keyboard.    *)
(* A string is a sequence of one-character strings; NL is the key '\n',    *)
(* NUL the key '\0' of a command and GRAVE the key of the grave accent.    *)
(***************************************************************************)
NL == "\n"
NUL == "NUL"
GRAVE == "GRAVE"

layout ==
  <<
    << <<"q", "w", "e", "r", "t", "y", "u", "i", "o", "p", "\"", "$", "7", "8", "9">>,
       <<"a", "s", "d", "f", "g", "h", "j", "k", "l", ":", "'", "-", "4", "5", "6">>,
       <<"!", "z", "x", "c", "v", "b", "n", "m", ",", ";", "/", "+", "1", "2", "3">>,
       <<"(", ")", "?", ".", " ", " ", " ", " ", " ", NL, NL, "*", "%", "0", "=">> >>,
    << <<"Q", "W", "E", "R", "T", "Y", "U", "I", "O", "P", "<", ">", NUL>>,
       <<"A", "S", "D", "F", "G", "H", "J", "K", "L", "\\", "[", "]", NUL>>,
       <<"|", "Z", "X", "C", "V", "B", "N", "M", "@", "~", "{", "}", NUL>>,
       <<"_", "&", "^", "#", " ", " ", " ", " ", " ", NL, NL, GRAVE, NUL>> >>
  >>

cmd == <<"Exec", "Load", "Save", "Exit">>

nsep == 164

\* self.mode = None
NoMode == <<>>

Min(a, b) == IF a < b THEN a ELSE b
Max(a, b) == IF a > b THEN a ELSE b

\* Python's reading of a slice bound i for a sequence of length n
PyBound(i, n) == IF i < 0 THEN Max(n + i, 0) ELSE Min(i, n)

\* seq[a:b] of Python
Slice(seq, a, b) == SubSeq(seq, PyBound(a, Len(seq)) + 1, PyBound(b, Len(seq)))

\* seq[i] of Python, where a negative i counts from the end
PyAt(seq, i) == seq[IF i < 0 THEN Len(seq) + i + 1 ELSE i + 1]

\* line[:x] + mid + line[x2:]
Splice(line, x, mid, x2) == Slice(line, 0, x) \o mid \o Slice(line, x2, Len(line))

\* list.insert(i, v) for 0 <= i <= len(list)
ListInsert(list, i, v) == SubSeq(list, 1, i) \o <<v>> \o SubSeq(list, i + 1, Len(list))

\* EditExecApp.__init__
hello == <<"p", "r", "i", "n", "t", "(", "\"", "h", "e", "l", "l", "o", " ",
           "w", "o", "r", "l", "d", "\"", ")">>

EditorInit ==
    [text |-> <<hello>>, xchar |-> Len(hello), ychar |-> 0, output |-> <<>>,
     mode |-> NoMode, page |-> 0]

\* EditExecApp.drawLargeKbd(event1, clayout): the value of self.mode
drawLargeKbd(event1, clayout) ==
    LET x0 == event1 \div 16
        x == IF clayout[1][Len(clayout[1])] # NUL
             THEN Min(Max(x0, 2), Len(clayout[1]) - 3)
             ELSE Min(Max(x0, 2), Len(clayout[1]) - 2)
    IN  <<Slice(clayout[1], x - 2, x + 3), Slice(clayout[2], x - 2, x + 3),
          Slice(clayout[3], x - 2, x + 3), Slice(clayout[4], x - 2, x + 3)>>

\* exec('\n'.join(self.text), ...) with print bound to self.print: what the
\* program prints, or the text of its exception, is left open
exec(lines) == <<"printed">>

\* the row and the key of self.mode that touch(event) selects
touchRow(st, ey) == ey \div 48 - 1
touchKey(st, ex, ey) ==
    LET row == PyAt(st.mode, touchRow(st, ey))
    IN  PyAt(row, Min(ex \div 48, Len(row) - 1))

\* foreground, _draw, drawText and drawKbd draw and assign no attribute.
\* EditExecApp.touch(event) with event[1] = ex, event[2] = ey:
\* the attributes afterwards
touch(st, ex, ey) ==
    IF st.mode # NoMode
    THEN LET c == touchKey(st, ex, ey)
             line == st.text[st.ychar + 1]
         IN  IF c = NUL
             THEN [st EXCEPT !.output = exec(st.text), !.mode = NoMode]
             ELSE IF c = NL
             THEN [st EXCEPT
                       !.text = ListInsert([st.text EXCEPT ![st.ychar + 1] =
                                                Slice(line, 0, st.xchar)],
                                           st.ychar + 1,
                                           Slice(line, st.xchar, Len(line))),
                       !.xchar = 0,
                       !.ychar = st.ychar + 1,
                       !.mode = NoMode]
             ELSE [st EXCEPT
                       !.text[st.ychar + 1] = Splice(line, st.xchar, <<c>>, st.xchar),
                       !.xchar = st.xchar + 1,
                       !.mode = NoMode]
    ELSE IF ey >= nsep
    THEN [st EXCEPT !.mode = drawLargeKbd(ex, layout[st.page + 1])]
    ELSE st

\* the label cmd[y] of the command key that touch(event) hits, "" if none
touchedCommand(st, ex, ey) ==
    IF st.mode # NoMode /\ touchKey(st, ex, ey) = NUL
    THEN PyAt(cmd, touchRow(st, ey))
    ELSE ""

\* touch(event) reaches the call of exec
touchRuns(st, ex, ey) == st.mode # NoMode /\ touchKey(st, ex, ey) = NUL

Directions == {"UP", "DOWN", "LEFT", "RIGHT"}

\* EditExecApp.swipe(event) with event[0] = dir, event[1] = ex,
\* event[2] = ey: the attributes afterwards
swipe(st, dir, ex, ey) ==
    LET line == st.text[st.ychar + 1]
    IN  IF st.mode # NoMode THEN [st EXCEPT !.mode = NoMode]
        ELSE IF dir = "UP"
        THEN [st EXCEPT !.page = (st.page + 1) % Len(layout)]
        ELSE IF dir = "DOWN" /\ ey >= nsep
        THEN [st EXCEPT !.mode =
                  drawLargeKbd(ex, layout[((st.page + 1) % Len(layout)) + 1])]
        ELSE IF dir = "LEFT" /\ ey >= nsep /\ Len(st.text) > 0
        THEN IF st.xchar # 0
             THEN [st EXCEPT
                       !.xchar = st.xchar - 1,
                       !.text[st.ychar + 1] = Splice(line, st.xchar - 1, <<>>, st.xchar)]
             ELSE st
        ELSE IF dir = "RIGHT" /\ ey >= nsep /\ Len(st.text) > 0
        THEN IF st.xchar < Len(line)
             THEN [st EXCEPT
                       !.text[st.ychar + 1] = Splice(line, st.xchar, <<>>, st.xchar + 1)]
             ELSE st
        ELSE IF dir = "LEFT" /\ ey < nsep
        THEN IF st.xchar - 1 = 0
             THEN IF st.ychar # 0
                  THEN [st EXCEPT !.ychar = st.ychar - 1,
                                  !.xchar = Len(st.text[st.ychar])]
                  ELSE [st EXCEPT !.xchar = 1]
             ELSE [st EXCEPT !.xchar = st.xchar - 1]
        ELSE IF dir = "RIGHT" /\ ey < nsep
        THEN IF st.xchar + 1 > Len(line)
             THEN IF st.ychar # Len(st.text) - 1
                  THEN [st EXCEPT !.ychar = st.ychar + 1, !.xchar = 0]
                  ELSE st
             ELSE [st EXCEPT !.xchar = st.xchar + 1]
        ELSE st

\* Bounds of the editor's inputs
MaxEdits == 1           \* handlers that change the text
MaxBelow == 2           \* how far below 0 a swipe may take self.xchar

\* the places of the screen the events name: one in the left and one in
\* the right part of the keyboard, one in each row of the enlarged keyboard
TouchXs == {8, 184}
TouchYs == {24, 72, 120, 168, 216}
\* a swipe in the text area and one on the keyboard
SwipeYs == {72, 216}

Editor == [text |-> text, xchar |-> xchar, ychar |-> ychar, output |-> output,
           mode |-> mode, page |-> page]

EditInit ==
    /\ text = EditorInit.text /\ xchar = EditorInit.xchar
    /\ ychar = EditorInit.ychar /\ output = EditorInit.output
    /\ mode = EditorInit.mode /\ page = EditorInit.page
    /\ key = "" /\ ran = FALSE /\ edits = 0
    /\ DstIdle /\ TideIdle /\ AppIdle

\* the handler leaves the attributes st
Becomes(st) ==
    /\ edits < MaxEdits \/ st.text = text
    /\ st.xchar >= -MaxBelow
    /\ text' = st.text /\ xchar' = st.xchar /\ ychar' = st.ychar
    /\ output' = st.output /\ mode' = st.mode /\ page' = st.page
    /\ edits' = IF st.text = text THEN edits ELSE edits + 1

\* a touch event is delivered
Touch(ex, ey) ==
    /\ Becomes(touch(Editor, ex, ey))
    /\ key' = touchedCommand(Editor, ex, ey)
    /\ ran' = touchRuns(Editor, ex, ey)
    /\ UNCHANGED <<dstVars, tideVars, appVars>>

\* a swipe event is delivered
Swipe(dir, ex, ey) ==
    /\ Becomes(swipe(Editor, dir, ex, ey))
    /\ key' = "" /\ ran' = FALSE
    /\ UNCHANGED <<dstVars, tideVars, appVars>>

EditNext ==
    \/ \E ex \in TouchXs, ey \in TouchYs : Touch(ex, ey)
    \/ \E dir \in Directions, ex \in TouchXs, ey \in SwipeYs : Swipe(dir, ex, ey)

SpecEdit == EditInit /\ [][EditNext]_vars

(***************************************************************************)
(* Properties                                                              *)
(***************************************************************************)
StrictlyIncreasing(ch) == \A i \in 1..(Len(ch) - 1) : ch[i][1] < ch[i + 1][1]
Alternating(ch) == \A i \in 1..(Len(ch) - 1) : ch[i][2] # ch[i + 1][2]

\* C1: the chain built from any reference time has exactly the number of
\* events asked for, with strictly increasing timestamps and strictly
\* alternating isHigh flags.
C1_ChainAlternates ==
    tPc = "chain" =>
        /\ Len(tChain) = tN
        /\ StrictlyIncreasing(tChain)
        /\ Alternating(tChain)

\* a chain of at least three events whose first event replaced one that
\* lay before the reference time
C1_Witness ==
    /\ tPc = "chain" /\ tN >= 3
    /\ tEvent[1] < tT
    /\ tChain[1] # tEvent
    /\ Len(tChain) = tN

\* C2: the event nearest to t lies within halfPeriod of t.
C2_NearestWithinHalfPeriod ==
    tPc \in {"event", "chain"} => Abs(tEvent[1] - tT) <= halfPeriod

\* an event found for a reference time that is not itself an event
C2_Witness ==
    /\ tPc = "event"
    /\ tEvent[1] # tT
    /\ tModel # ModelOf(Aberdeen)

\* C3: predictHigh is periodic to within the site's declared error:
\* |high(t + basePeriod) - (high(t) + basePeriod)| <= error, for every t.
C3_PeriodicWithinError ==
    tPc = "high" => Abs(tHighNext - (tHigh + basePeriod)) <= tModel.error

\* time0 of Tide.high lies in the seconds of the scaled period that follow
\* its hundred base periods
InWrapSeconds(m, t) ==
    ((t - t0 - m.offset + halfPeriod) % basePeriod100) >= 100 * basePeriod

\* the periodicity holds of every drawn time outside those seconds
PeriodicOutsideWrap ==
    (tPc = "high" /\ ~InWrapSeconds(tModel, tT))
        => Abs(tHighNext - (tHigh + basePeriod)) <= tModel.error

\* the year of the drawn input and its boundaries
dSpringFwd == springFwd(dYear, dRegion)
dFallBack == fallBack(dYear, dRegion)

\* the boundary hour of a switch is the local clock hour that is skipped or
\* repeated there; a standard time is strictly outside it when it is more
\* than an hour away from the switch
OutsideBoundaryHours(t) ==
    /\ Abs(t - dSpringFwd) > 3600
    /\ Abs(t - dFallBack) > 3600

C5_HalfOpenInterval ==
    (dPc \in {"displayed", "restored"} /\ dRegion \in KnownRegions)
        => dOut.value = (IF dSpringFwd <= dT /\ dT < dFallBack THEN dT + 3600 ELSE dT)

\* day d is the n-th Sunday of the month
NthSunday(y, m, d, n) == IsSunday(y, m, d) /\ 7 * (n - 1) < d /\ d <= 7 * n

\* day d is the last Sunday of the month
LastSunday(y, m, d) == IsSunday(y, m, d) /\ d <= MonthLen(y, m) /\ d + 7 > MonthLen(y, m)

\* C6: for US-Canada and every year 2000..2099, springForward is the second
\* Sunday of March at 02:00 and fallBack the first Sunday of November at 02:00.
C6_UsCanadaSundays ==
    (dPc \in {"dates", "displayed", "restored"} /\ dRegion = "US-Canada")
        => /\ dSpring[1] = dYear /\ dSpring[2] = 3 /\ dSpring[4] = 2
           /\ NthSunday(dYear, 3, dSpring[3], 2)
           /\ dFall[1] = dYear /\ dFall[2] = 11 /\ dFall[4] = 2
           /\ NthSunday(dYear, 11, dFall[3], 1)

\* C7: for Europe and every year 2000..2099, springForward is the last
\* Sunday of March and fallBack the last Sunday of October, both at 01:00.
C7_EuropeLastSundays ==
    (dPc \in {"dates", "displayed", "restored"} /\ dRegion = "Europe")
        => /\ dSpring[1] = dYear /\ dSpring[2] = 3 /\ dSpring[4] = 1
           /\ LastSunday(dYear, 3, dSpring[3])
           /\ dFall[1] = dYear /\ dFall[2] = 10 /\ dFall[4] = 1
           /\ LastSunday(dYear, 10, dFall[3])

\* the dates of the last year of the range, computed for Europe
C7_Witness ==
    /\ dPc = "dates" /\ dRegion = "Europe" /\ dYear = LastYear
    /\ dSpring = <<LastYear, 3, 29, 1>>
    /\ dFall = <<LastYear, 10, 25, 1>>

\* the records of a resource: its lines that are not comments
IsRecord(line) == ~line.comment
Records(cfg) == SelectSeq(cfg, IsRecord)

\* C8: a site-advance request invalidates the cached chain before the next
\* draw: a non-empty cache that a draw may read was computed from the model
\* of the currently selected site, never from a previously selected site.
C8_CacheOfCurrentSite ==
    timestamp # NoEvents => cacheSite = site

\* C9: load skips the lines that begin with '#': a comment line is never
\* selected as a site, and the index counts the non-comment lines only, so
\* the k-th selection is the k-th record.
C9_CommentsSkipped ==
    /\ \A i \in 1..Len(config) : config[i].comment => site # config[i].name
    /\ (trail # <<>> /\ Len(trail) <= Len(Records(config)))
            => site = Records(config)[Len(trail)].name

\* C10: selection is cyclic: with a resource of N records, N advance
\* requests from the first record visit each record once and return to the
\* first record, the index past the last record wrapping instead of failing.
C10_CyclicSelection ==
    Len(trail) = Len(Records(config)) + 1
        => /\ raised \notin {"Exception", "IndexError"}
           /\ site = Records(config)[1].name
           /\ trail[1] = Records(config)[1].name
           /\ {trail[i] : i \in 1..Len(Records(config))}
                  = {Records(config)[i].name : i \in 1..Len(Records(config))}

\* the three properties hold of the resources that hold no comment line
NoComments == \A i \in 1..Len(config) : ~config[i].comment
WithoutCommentLines ==
    NoComments => (C8_CacheOfCurrentSite /\ C9_CommentsSkipped /\ C10_CyclicSelection)

\* C11: the cached chain is kept as long as now (standard time) has not
\* passed the first cached event's timestamp: a draw that observes now <=
\* that timestamp leaves the cache unchanged, and a draw that observes now
\* greater than it, or no cache, rebuilds the chain from now.
C11_CacheValidity ==
    observed # NoTime =>
        IF prior = NoEvents \/ observed > prior[1][1]
        THEN timestamp = advanceChain(_model, observed, _NTIDE)
        ELSE timestamp = prior

\* a draw that found a cache whose first event had passed and rebuilt it
C11_Witness ==
    /\ observed # NoTime /\ prior # NoEvents
    /\ observed > prior[1][1]
    /\ timestamp # prior
    /\ timestamp[1][1] >= observed

\* a draw that found a cache whose first event had not passed and kept it
C11_KeptWitness ==
    /\ observed # NoTime /\ prior # NoEvents
    /\ observed <= prior[1][1]
    /\ timestamp = prior

\* C12: a region other than Europe, US-Canada or None makes _displayTime
\* and _standardTime fail with an error for every t; neither returns a
\* timestamp computed under a default region.
C12_UnknownRegionRaises ==
    (dRegion \notin KnownRegions \cup {None})
        => /\ dPc \in {"displayed", "restored"} => dOut.raised = "ValueError"
           /\ dPc = "restored" => dBack.raised = "ValueError"

\* both conversions applied to a summer time under an unknown region
C12_Witness ==
    /\ dPc = "restored" /\ dRegion = "Australia"
    /\ dT = _mktime(<<dYear, 7, 1, 12>>)
    /\ dOut.raised = "ValueError" /\ dBack.raised = "ValueError"

\* the exceptions Tide.__init__ ends with when it cannot build the site
LoadErrors == {"Exception", "IndexError"}

\* C13: when the requested site cannot be resolved, loading fails and no
\* partial site is left behind: a handler that ends with the load's
\* exception leaves self._nsite, self.site, self._model and self.timestamp
\* as they were.
C13_NoPartialLoad ==
    [][raised' \in LoadErrors =>
          /\ _nsite' = _nsite /\ site' = site
          /\ _model' = _model /\ timestamp' = timestamp]_vars

\* the state a failing load leaves: the name of the unresolved line with
\* the model and the cached chain of the site before it
HalfUpdated ==
    /\ raised \in LoadErrors
    /\ Tide(config, site).raised # ""
    /\ _model = Tide(config, trail[Len(trail) - 1]).model

\* the multiples of basePeriod either side of y
MultiplesAround(y) == {(y \div basePeriod) * basePeriod, (y \div basePeriod + 1) * basePeriod}

\* x is a multiple of basePeriod and no multiple is nearer to y
NearestMultiple(x, y) ==
    /\ x % basePeriod = 0
    /\ \A mult \in MultiplesAround(y) : Abs(x - y) <= Abs(mult - y)

\* C14: with all harmonic amplitudes zero, for every t the value
\* high(t) - t0 - offset is an exact integer multiple of basePeriod, and it
\* is the multiple nearest to t - t0 - offset.
C14_NearestMultiple ==
    (tPc = "high" /\ tModel.s = Zeros /\ tModel.c = Zeros)
        => NearestMultiple(tHigh - t0 - tModel.offset, tT - t0 - tModel.offset)

\* the same holds of the reference times of the first scaled period
NearestMultipleInFirstPeriod ==
    (tPc = "high" /\ tModel.s = Zeros /\ tModel.c = Zeros
     /\ tT - t0 - tModel.offset + halfPeriod \in 0..(basePeriod100 - 1))
        => NearestMultiple(tHigh - t0 - tModel.offset, tT - t0 - tModel.offset)

\* C15: when the watch face refreshes its cache at time now, the cached
\* events are the next four tides: the cache holds exactly 4 events and
\* the first one, hence every one, has a timestamp >= now.
C15_NextFourTides ==
    (observed # NoTime /\ (prior = NoEvents \/ observed > prior[1][1]))
        => /\ Len(timestamp) = 4
           /\ \A i \in 1..Len(timestamp) : timestamp[i][1] >= observed

\* a refresh at a time whose nearest event had already passed
C15_Witness ==
    /\ observed # NoTime
    /\ prior = NoEvents \/ observed > prior[1][1]
    /\ event(_model, observed, FALSE)[1] < observed
    /\ Len(timestamp) = 4
    /\ timestamp[1][1] >= observed

\* the same of the chains built from the drawn reference times
ChainNotBeforeReference ==
    tPc = "chain" => \A i \in 1..Len(tChain) : tChain[i][1] >= tT

\* the steps of a chain: each event was produced by event(previous, next=True)
StepsAtLeast(ch, d) == \A i \in 1..(Len(ch) - 1) : ch[i + 1][1] - ch[i][1] >= d

\* C16: each step of the chain advances by at least halfPeriod: every
\* event produced by event(previous.timestamp, next=True) has a timestamp
\* at least halfPeriod greater than previous.timestamp.
C16_StepAtLeastHalfPeriod ==
    tPc = "chain" => StepsAtLeast(tChain, halfPeriod)

\* C16 as amended: every event produced by event(previous.timestamp,
\* next=True) has a timestamp strictly greater than previous.timestamp.
C16_StepAdvances ==
    tPc = "chain" => StepsAtLeast(tChain, 1)

\* a chain whose step from a high to the low after it is shorter than
\* halfPeriod
C16_Witness ==
    /\ tPc = "chain" /\ Len(tChain) >= 3
    /\ tChain[1][2] /\ ~tChain[2][2]
    /\ tChain[2][1] - tChain[1][1] < halfPeriod
    /\ tChain[2][1] > tChain[1][1]

\* x is a whole number nearest to p percent of d
NearestSecond(x, p, d) == 2 * Abs(100 * x - p * d) <= 100

\* the low of the candidates c is the rounded fraction of their highs
LowRounded(m, c) ==
    c[1][1] < c[3][1] => NearestSecond(c[2][1] - c[1][1], m.lowf, c[3][1] - c[1][1])

\* C17: low with bounds lastHigh < nextHigh returns
\* lastHigh + round(lowf * (nextHigh - lastHigh)): the product is rounded
\* to the nearest whole second, not truncated.
C17_LowRounded ==
    tPc \in {"event", "chain"}
        => LowRounded(tModel, tCand) /\ LowRounded(tModel, tCandNext)

\* the bounds lastHigh <= tt <= nextHigh, lastHigh < nextHigh and
\* lastHigh <= low <= nextHigh of the candidates c for the search point tt
Brackets(c, tt) ==
    /\ c[1][1] <= tt /\ tt <= c[3][1]
    /\ c[1][1] < c[3][1]
    /\ c[1][1] <= c[2][1] /\ c[2][1] <= c[3][1]

\* C18: inside event, once the search point is fixed (the halfPeriod
\* advance of next=True included), the candidates bracket it:
\* lastHigh <= t <= nextHigh, lastHigh < nextHigh, and the low lies
\* within [lastHigh, nextHigh].
C18_CandidatesBracket ==
    tPc \in {"event", "chain"}
        => /\ Brackets(tCand, eventPoint(tT, FALSE))
           /\ Brackets(tCandNext, eventPoint(tT, TRUE))

\* a search point below high(t), for which event steps one period back
C18_Witness ==
    /\ tPc = "event"
    /\ tHigh > tT /\ tCand[3][1] = tHigh /\ tCand[1][1] < tT
    /\ tCandNext[1][1] <= tT + halfPeriod /\ tT + halfPeriod <= tCandNext[3][1]

\* the cursor is inside the text
CursorInside ==
    /\ 0 <= ychar /\ ychar < Len(text)
    /\ 0 <= xchar /\ xchar <= Len(text[ychar + 1])

\* C19: in the editor, after any sequence of touch and swipe events the
\* cursor stays inside the text: 0 <= ychar < number of lines and
\* 0 <= xchar <= length of line ychar.
C19_CursorInside ==
    text # <<>> => CursorInside

\* C20: of the four command keys only Exec works: touching the Exec key
\* of the enlarged keyboard runs the edited text, touching Load, Save or
\* Exit does not run it.
C20_OnlyExecRuns ==
    /\ key = "Exec" => ran
    /\ key \in {"Load", "Save", "Exit"} => ~ran

\* the Exec key does run the text
ExecRuns ==
    key = "Exec" => (ran /\ output = exec(text))

====
